---- MODULE Spec2Model ----
(***************************************************************************)
(* gostratum/tracingx: the provider selector (NewTracer), the lifecycle    *)
(* hooks (registerLifecycle), the no-op provider and span, the pass-through *)
(* (OTLP) provider and span, and the context helpers SpanFromContext /     *)
(* ContextWithSpan.                                                         *)
(*                                                                          *)
(* A context.Context is an immutable chain of (key, value) entries: the     *)
(* sequence of its entries, oldest first; context.Background() is <<>>.     *)
(* Wrapper spans (the Span interface values) live in the heap `spans`, SDK  *)
(* spans in the heap `otel`; a span is named by its index, 0 is nil.        *)
(***************************************************************************)
EXTENDS Integers, Sequences, FiniteSets, TLC

VARIABLES
    pc,         \* "boot" | "built" | "registered" | "started" | "stopped" | "failed"
    how,        \* "none" | "module" (NewTracer) | "direct" (constructor called directly)
    result,     \* what the construction returned: [Tracer, Provider, err]
    globals,    \* the otel package's process-wide state: [tp, prop, writes]
    spans,      \* heap of wrapper spans (noopSpan / otlpSpan)
    otel,       \* heap of SDK spans
    sdk,        \* the SDK tracer provider: [shut, queued, exported, calls]
    shutdowns,  \* every Provider.Shutdown call so far: [by, ctx, err]
    starts,     \* every Start call so far: [inCtx, ctx, span]
    last,       \* the last call: its arguments, what it returned and what it logged
    budget,     \* how many calls a run may forward to the SDK (fixed at the start)
    pure        \* the last call of a helper that touches no provider (the context
                \* helpers, NewConfig, Config.Sanitize): its arguments and results

vars ==
    <<pc, how, result, globals, spans, otel, sdk, shutdowns, starts, last, budget,
      pure>>

----------------------------------------------------------------------------
(* Bounds of the model. *)

MaxSpans == 3
MaxCallerShutdowns == 2
MaxSdkCalls == 2
MaxSpanCalls == 4
MaxCtxLen == 2

\* pass-through providers built in one process
MaxProviders == 2

\* headers in one OTLP header map
MaxHeaders == 2

\* span options in one call
MaxOpts == 3

\* values in the list of one header
MaxVals == 2

----------------------------------------------------------------------------
(* Values. *)

NoErr == "nil"
NilProvider == "nil"

ProviderNames == {"otlp", "noop", "", "OTLP", "unknown-provider", "jaeger"}

Background == <<>>

\* context keys
SpanContextKey == "tracingx.spanContextKey"
OtelSpanKey == "otel.currentSpanKey"

----------------------------------------------------------------------------
(* context.Context: Value looks the key up from the newest entry back. *)

Entry(key, ref, tid, sid) == [k |-> key, ref |-> ref, tid |-> tid, sid |-> sid]

NoEntry == Entry("", 0, 0, 0)

RECURSIVE Value(_, _)
Value(ctx, key) ==
    IF ctx = <<>> THEN NoEntry
    ELSE IF ctx[Len(ctx)].k = key THEN ctx[Len(ctx)]
    ELSE Value(SubSeq(ctx, 1, Len(ctx) - 1), key)

WithValue(ctx, e) == Append(ctx, e)

\* the context fx hands to a lifecycle hook (it carries fx's timeout)
HookCtx == <<Entry("fx.timeout", 0, 0, 0)>>

\* a SpanFromContext that takes the oldest span attached to the context
SpanFromContextOldest(ctx) ==
    LET at == {i \in DOMAIN ctx : ctx[i].k = SpanContextKey /\ ctx[i].ref # 0}
    IN  IF at = {} THEN 0 ELSE ctx[CHOOSE i \in at : \A j \in at : i <= j].ref

\* tracer.go SpanFromContext: the span under spanContextKey{}, nil (0) when absent
SpanFromContext(ctx) ==
    LET e == Value(ctx, SpanContextKey)
    IN  IF e.k = SpanContextKey /\ e.ref # 0 THEN e.ref ELSE 0

\* a ContextWithSpan that returns the context it was given
ContextWithSpanDropped(ctx, span) == ctx

\* tracer.go ContextWithSpan
ContextWithSpan(ctx, span) == WithValue(ctx, Entry(SpanContextKey, span, 0, 0))

----------------------------------------------------------------------------
(* Carriers.  A carrier is [type, m]: its dynamic Go type and its contents, *)
(* a function from header keys to lists of values.  A header value is the   *)
(* span context it encodes, [tid, sid]; NoValue stands for the empty        *)
(* string and for every value that does not parse.                          *)

NoValue == [tid |-> 0, sid |-> 0]

RemoteValue == [tid |-> 9, sid |-> 9]

TraceParent == "traceparent"

EmptyMap == [x \in {} |-> <<>>]

CarrierTypes ==
    {"propagation.MapCarrier", "map[string]string", "map[string][]string",
     "http.Header", "<nil>", "string"}

\* the method set of each dynamic type (Go's net/http and otel propagation)
MethodSet(t) ==
    CASE t = "propagation.MapCarrier" -> {"Get", "Set", "Keys"}
      [] t = "http.Header" ->
            {"Add", "Set", "Get", "Values", "Del", "Write", "WriteSubset", "Clone"}
      [] OTHER -> {}

\* propagation.TextMapCarrier: Get, Set, Keys
ImplementsTextMapCarrier(t) == {"Get", "Set", "Keys"} \subseteq MethodSet(t)

\* the type switch without its map[string][]string arm
CarrierCaseNoLists(t) ==
    CASE ImplementsTextMapCarrier(t) -> "native"
      [] t = "map[string]string" -> "MapCarrier"
      [] OTHER -> "unsupported"

\* the type switch of provider_otlp.go Extract / Inject: which adapter the
\* carrier gets, "unsupported" for the default arm
CarrierCase(t) ==
    CASE ImplementsTextMapCarrier(t) -> "native"
      [] t = "map[string]string" -> "MapCarrier"
      [] t = "map[string][]string" -> "headerCarrier"
      [] OTHER -> "unsupported"

UnsupportedCarrier(t) == "unsupported carrier type: " \o t

\* headerCarrier.Get: the first value of the key's list, "" when absent or empty
headerCarrierGet(m, key) ==
    IF key \in DOMAIN m /\ Len(m[key]) > 0 THEN m[key][1] ELSE NoValue

\* a headerCarrier.Set that adds the value to the key's list, as
\* http.Header.Add does
headerCarrierSetAppends(m, key, value) ==
    [x \in DOMAIN m \cup {key} |->
        IF x # key THEN m[x]
        ELSE IF key \in DOMAIN m THEN Append(m[key], value) ELSE <<value>>]

\* headerCarrier.Set: the key's list becomes the one-element list
headerCarrierSet(m, key, value) ==
    [x \in DOMAIN m \cup {key} |-> IF x = key THEN <<value>> ELSE m[x]]

\* headerCarrier.Keys: the slices the loop over the map can build, one
\* append for each key, in the order the map yields them (any order)
headerCarrierKeys(m) ==
    {keys \in [1..Cardinality(DOMAIN m) -> DOMAIN m] :
        \A i, j \in DOMAIN keys : keys[i] = keys[j] => i = j}

\* a map[string][]string value h is [nil, m]: the nil map reads as the
\* empty map, and an assignment to an entry of it panics
HeaderValue(isNil, m) == [nil |-> isNil, m |-> m]

\* headerCarrier.Set on the map value h: the panic, or the map written
headerCarrierSetOn(h, key, value) ==
    IF h.nil
    THEN [panic |-> "assignment to entry in nil map", h |-> h]
    ELSE [panic |-> "", h |-> HeaderValue(FALSE, headerCarrierSet(h.m, key, value))]

\* propagation.MapCarrier.Get / Set (a map[string]string holds one value per key)
MapCarrierGet(m, key) == IF key \in DOMAIN m THEN m[key][1] ELSE NoValue

MapCarrierSet(m, key, value) ==
    [x \in DOMAIN m \cup {key} |-> IF x = key THEN <<value>> ELSE m[x]]

CarrierGet(adapter, m, key) ==
    IF adapter = "headerCarrier" THEN headerCarrierGet(m, key) ELSE MapCarrierGet(m, key)

CarrierSet(adapter, m, key, value) ==
    IF adapter = "headerCarrier" THEN headerCarrierSet(m, key, value)
    ELSE MapCarrierSet(m, key, value)

----------------------------------------------------------------------------
(* Construction.  A provider value is [impl, tp, tracer]: the               *)
(* implementation behind the Provider interface and, for the pass-through   *)
(* provider, the SDK tracer provider it holds (0 for none) and the tracer   *)
(* provider its tracer came from; [impl |-> "nil"] is a nil interface.      *)

NilProv == [impl |-> NilProvider, tp |-> 0, tracer |-> 0]

\* provider_noop.go newNoopProvider
newNoopProvider == [impl |-> "noop", tp |-> 0, tracer |-> 0]

LogRec(level, msg, field) == [level |-> level, msg |-> msg, field |-> field]

\* what the environment lets the SDK constructors do
BuildOutcomes == {"ok", "exporterErr", "resourceErr"}

ExporterErr == "failed to create OTLP exporter: exporter error"
ResourceErr == "failed to create resource: resource error"

\* a newOTLPProvider that keeps the tracer provider and the propagator to
\* itself: nothing is installed process-wide
newOTLPProviderLocal(config, env, g, lg) ==
    IF env = "exporterErr"
    THEN [provider |-> NilProv, err |-> ExporterErr, globals |-> g, log |-> lg]
    ELSE IF env = "resourceErr"
    THEN [provider |-> NilProv, err |-> ResourceErr, globals |-> g, log |-> lg]
    ELSE LET tp == g.built + 1
         IN  [provider |-> [impl |-> "otlp", tp |-> tp, tracer |-> tp],
              err |-> NoErr,
              globals |-> [g EXCEPT !.built = tp],
              log |-> Append(lg, LogRec("info", "OTLP tracing provider initialized", ""))]

\* a newOTLPProvider that registers its tracer provider and the propagator
\* as soon as the exporter is there, before the resource is built
newOTLPProviderEager(config, env, g, lg) ==
    IF env = "exporterErr"
    THEN [provider |-> NilProv, err |-> ExporterErr, globals |-> g, log |-> lg]
    ELSE LET tp == g.built + 1
             installed == [tp |-> tp, prop |-> "tracecontext+baggage",
                           writes |-> g.writes + 1, built |-> tp]
         IN  IF env = "resourceErr"
             THEN [provider |-> NilProv, err |-> ResourceErr, globals |-> installed,
                   log |-> lg]
             ELSE [provider |-> [impl |-> "otlp", tp |-> tp, tracer |-> tp],
                   err |-> NoErr,
                   globals |-> installed,
                   log |-> Append(lg, LogRec("info", "OTLP tracing provider initialized",
                                             ""))]

\* provider_otlp.go newOTLPProvider: (provider, err) and its effects on the
\* process-wide otel state g and on the log lg
newOTLPProvider(config, env, g, lg) ==
    IF env = "exporterErr"
    THEN [provider |-> NilProv, err |-> ExporterErr, globals |-> g, log |-> lg]
    ELSE IF env = "resourceErr"
    THEN [provider |-> NilProv, err |-> ResourceErr, globals |-> g, log |-> lg]
    ELSE LET tp == g.built + 1
         IN  [provider |-> [impl |-> "otlp", tp |-> tp, tracer |-> tp],
              err |-> NoErr,
              globals |-> [tp |-> tp, prop |-> "tracecontext+baggage",
                           writes |-> g.writes + 1, built |-> tp],
              log |-> Append(lg, LogRec("info", "OTLP tracing provider initialized", ""))]

\* the zero Result: no Tracer, no Provider
EmptyResult == [Tracer |-> NilProv, Provider |-> NilProv]

\* NewTracer's switch on Config.Provider: the provider (or the error) and the
\* effects of building it
SelectProvider(config, env, g, lg) ==
    CASE config.Provider = "otlp" -> newOTLPProvider(config, env, g, lg)
      [] config.Provider = "noop" ->
            [provider |-> newNoopProvider, err |-> NoErr, globals |-> g, log |-> lg]
      [] OTHER ->
            [provider |-> newNoopProvider, err |-> NoErr, globals |-> g,
             log |-> Append(lg, LogRec("warn", "unknown tracing provider, using noop",
                                       config.Provider))]

\* NewTracer's return with a fallback: a failed construction yields the no-op
\* provider instead of the error
ResultOfFallback(built) ==
    IF built.err # NoErr
    THEN [result |-> [Tracer |-> newNoopProvider, Provider |-> newNoopProvider],
          err |-> NoErr, globals |-> built.globals, log |-> built.log]
    ELSE [result |-> [Tracer |-> built.provider, Provider |-> built.provider],
          err |-> NoErr, globals |-> built.globals, log |-> built.log]

\* NewTracer's return with two instances: the selected provider as Tracer and
\* a separate no-op provider as Provider
ResultOfTwoInstances(built) ==
    IF built.err # NoErr
    THEN [result |-> EmptyResult, err |-> built.err,
          globals |-> built.globals, log |-> built.log]
    ELSE [result |-> [Tracer |-> built.provider, Provider |-> newNoopProvider],
          err |-> NoErr, globals |-> built.globals, log |-> built.log]

\* NewTracer's return after the switch: the error with an empty Result, or the
\* provider as both Tracer and Provider
ResultOf(built) ==
    IF built.err # NoErr
    THEN [result |-> EmptyResult, err |-> built.err,
          globals |-> built.globals, log |-> built.log]
    ELSE [result |-> [Tracer |-> built.provider, Provider |-> built.provider],
          err |-> NoErr, globals |-> built.globals, log |-> built.log]

\* NewTracer without its check of Config.Enabled: the name alone selects
NewTracerIgnoringEnabled(config, env, g, lg) ==
    ResultOf(SelectProvider(config, env, g, lg))

\* module NewTracer: (Result, err) and its effects
NewTracerOut(config, env, g, lg) ==
    IF ~config.Enabled
    THEN [result |-> [Tracer |-> newNoopProvider, Provider |-> newNoopProvider],
          err |-> NoErr, globals |-> g,
          log |-> Append(lg, LogRec("info", "tracing is disabled, using noop tracer", ""))]
    ELSE ResultOf(SelectProvider(config, env, g, lg))

----------------------------------------------------------------------------
(* The calls and what they return. *)

Configs == [Enabled : BOOLEAN, Provider : ProviderNames]

\* the zero Config
NoConfig == [Enabled |-> FALSE, Provider |-> ""]

\* no carrier (the call takes none)
NoCarrier == [type |-> "", m |-> EmptyMap]

\* an SDK span that is none
NoSdkSpan ==
    [tid |-> 0, sid |-> 0, name |-> "", kind |-> "", attrs |-> <<>>,
     start |-> [given |-> FALSE, t |-> 0], recording |-> FALSE, ended |-> FALSE,
     events |-> <<>>]

\* a call: who made it, its arguments (config, span, inCtx, carrierIn, errArg,
\* fields), what it returned (span, ctx, err), the carrier after it, the
\* records it logged, the SDK span as it was before a span method and the SDK
\* calls the span method made
Call(op, by, config, span, inCtx, ctx, err) ==
    [op |-> op, by |-> by, config |-> config, span |-> span, inCtx |-> inCtx,
     ctx |-> ctx, err |-> err, carrierIn |-> NoCarrier, carrier |-> NoCarrier,
     logs |-> <<>>, errArg |-> NoErr, fields |-> <<>>, before |-> NoSdkSpan,
     sdkCalls |-> <<>>]

NoCall == Call("none", "", NoConfig, 0, Background, Background, NoErr)

\* the carriers a caller may make, one of each dynamic type: empty, or holding
\* an incoming traceparent header (in a two-element list when list-valued)
NewCarriers ==
    { [type |-> "propagation.MapCarrier", m |-> EmptyMap],
      [type |-> "map[string]string", m |-> [x \in {TraceParent} |-> <<RemoteValue>>]],
      [type |-> "map[string][]string",
       m |-> [x \in {TraceParent} |-> <<RemoteValue, NoValue>>]],
      [type |-> "http.Header", m |-> [x \in {TraceParent} |-> <<RemoteValue>>]],
      [type |-> "<nil>", m |-> EmptyMap],
      [type |-> "string", m |-> EmptyMap] }

\* the contexts a caller can pass: the background context, every context a
\* Start returned, and the context the last call returned
Ctxs == {Background} \cup {starts[i].ctx : i \in DOMAIN starts} \cup {last.ctx}

\* the carriers a caller can pass: a new one, or the one the last call used
Carriers == NewCarriers \cup (IF last.carrier = NoCarrier THEN {} ELSE {last.carrier})

\* no helper called yet
NoHelperCall == [op |-> "none"]

\* the program before anything is built
Boot ==
    /\ pc = "boot"
    /\ how = "none"
    /\ result = [Tracer |-> NilProv, Provider |-> NilProv, err |-> NoErr]
    /\ globals = [tp |-> 0, prop |-> "noop", writes |-> 0, built |-> 0]
    /\ spans = <<>>
    /\ otel = <<>>
    /\ sdk = [shut |-> FALSE, queued |-> {}, exported |-> {}, calls |-> 0]
    /\ shutdowns = <<>>
    /\ starts = <<>>
    /\ last = NoCall
    /\ pure = NoHelperCall

Init == Boot /\ budget = MaxSdkCalls

\* fx calls NewTracer once, when the module is built, with the bound Config
NewTracer ==
    /\ pc = "boot"
    /\ \E config \in Configs, env \in BuildOutcomes :
         LET o == NewTracerOut(config, env, globals, <<>>)
         IN  /\ result' = [Tracer |-> o.result.Tracer, Provider |-> o.result.Provider,
                           err |-> o.err]
             /\ globals' = o.globals
             /\ pc' = IF o.err = NoErr THEN "built" ELSE "failed"
             /\ last' = [Call("NewTracer", "fx", config, 0, Background, Background, o.err)
                            EXCEPT !.logs = o.log]
    /\ how' = "module"
    /\ UNCHANGED <<spans, otel, sdk, shutdowns, starts, budget, pure>>

\* the configs the tests hand to newOTLPProvider: Enabled and Provider unset
DirectConfigs == {NoConfig}

\* a caller (a test, a program without fx) calls a constructor itself
NewDirect ==
    /\ pc = "boot"
    /\ \E impl \in {"noop", "otlp"}, config \in DirectConfigs, env \in BuildOutcomes :
         LET o == IF impl = "noop"
                  THEN [provider |-> newNoopProvider, err |-> NoErr,
                        globals |-> globals, log |-> <<>>]
                  ELSE newOTLPProvider(config, env, globals, <<>>)
         IN  /\ result' = [Tracer |-> o.provider, Provider |-> o.provider, err |-> o.err]
             /\ globals' = o.globals
             /\ pc' = IF o.err = NoErr THEN "built" ELSE "failed"
             /\ last' = [Call("new" \o impl, "caller", config, 0, Background, Background,
                              o.err) EXCEPT !.logs = o.log]
    /\ how' = "direct"
    /\ UNCHANGED <<spans, otel, sdk, shutdowns, starts, budget, pure>>

\* nothing stops a process from constructing again (a second fx app, a
\* test after a test): NewTracer has no guard and no sync.Once, and each
\* pass-through construction installs its own tracer provider and
\* propagator over the ones registered before.  The provider the model
\* follows stays the first one; the new one goes to the other caller.
Reconstruct ==
    /\ pc # "boot"
    /\ globals.built < MaxProviders
    /\ \E config \in Configs, env \in BuildOutcomes :
         LET o == NewTracerOut(config, env, globals, <<>>)
         IN  /\ globals' = o.globals
             /\ last' = [Call("reconstruct", "other", config, 0, Background, Background,
                              o.err) EXCEPT !.logs = o.log]
    /\ UNCHANGED <<pc, how, result, spans, otel, sdk, shutdowns, starts, budget, pure>>

----------------------------------------------------------------------------
(* Shutdown and the lifecycle hooks. *)

\* a call on the SDK span: End(), SetAttributes(attrs...), RecordError(err),
\* AddEvent(name, WithAttributes(attrs...))
SdkCall(fn, err, name, attrs) ==
    [fn |-> fn, err |-> err, name |-> name, attrs |-> attrs, ctx |-> Background]

\* a call of the SDK's TracerProvider.Shutdown(ctx) and the error it returned
SdkShutdownCall(ctx, ret) ==
    [fn |-> "Shutdown", err |-> ret, name |-> "", attrs |-> <<>>, ctx |-> ctx]

\* what the SDK's TracerProvider.Shutdown may return
SdkShutdownErrs == {NoErr, "context deadline exceeded"}

\* what the SDK's TracerProvider.Shutdown returns: the outcome of shutting its
\* span processors down, and nil at once when it is shut down already
SdkShutdownErr(s, sdkErr) == IF s.shut THEN NoErr ELSE sdkErr

\* the SDK's TracerProvider.Shutdown: the first call shuts the span processor
\* down, which exports the queued spans unless it fails; a later call does
\* nothing
SdkShutdown(s, sdkErr) ==
    IF s.shut THEN [s EXCEPT !.calls = s.calls + 1]
    ELSE [shut |-> TRUE,
          queued |-> IF sdkErr = NoErr THEN {} ELSE s.queued,
          exported |-> IF sdkErr = NoErr THEN s.exported \cup s.queued ELSE s.exported,
          calls |-> s.calls + 1]

\* a noopProvider.Shutdown that reports what an SDK shutdown would
noopShutdownFails(p, ctx, sdkErr, s) == [err |-> sdkErr, sdk |-> s, calls |-> <<>>]

\* noopProvider.Shutdown
noopShutdown(p, ctx, sdkErr, s) == [err |-> NoErr, sdk |-> s, calls |-> <<>>]

\* an otlpProvider.Shutdown that shuts the SDK down with a context of its own
otlpShutdownBackground(p, ctx, sdkErr, s) ==
    IF p.tp # 0
    THEN [err |-> SdkShutdownErr(s, sdkErr), sdk |-> SdkShutdown(s, sdkErr),
          calls |-> <<SdkShutdownCall(Background, SdkShutdownErr(s, sdkErr))>>]
    ELSE [err |-> NoErr, sdk |-> s, calls |-> <<>>]

\* otlpProvider.Shutdown
otlpShutdown(p, ctx, sdkErr, s) ==
    IF p.tp # 0
    THEN [err |-> SdkShutdownErr(s, sdkErr), sdk |-> SdkShutdown(s, sdkErr),
          calls |-> <<SdkShutdownCall(ctx, SdkShutdownErr(s, sdkErr))>>]
    ELSE [err |-> NoErr, sdk |-> s, calls |-> <<>>]

\* Provider.Shutdown on the provider p; sdkErr is what the SDK's shutdown returns
ProviderShutdown(p, ctx, sdkErr, s) ==
    IF p.impl = "otlp" THEN otlpShutdown(p, ctx, sdkErr, s)
    ELSE noopShutdown(p, ctx, sdkErr, s)

ShutdownRec(by, ctx, err) == [by |-> by, ctx |-> ctx, err |-> err]

\* a caller has the provider: fx hands it out once the module is wired (it
\* calls registerLifecycle right after NewTracer), a constructor at once
HasProvider ==
    \/ how = "module" /\ pc \in {"registered", "started", "stopped"}
    \/ how = "direct" /\ pc = "built"

\* the SDK takes one more call (no-op calls never reach it)
SdkRoom(p) == p.impl = "otlp" => sdk.calls < budget

\* module registerLifecycle: fx.Invoke appends the two hooks
registerLifecycle ==
    /\ pc = "built"
    /\ how = "module"
    /\ pc' = "registered"
    /\ last' = Call("registerLifecycle", "fx", NoConfig, 0, Background, Background, NoErr)
    /\ UNCHANGED <<how, result, globals, spans, otel, sdk, shutdowns, starts, budget, pure>>

\* the OnStart hook: what it returns and what it does
OnStartOut(p, ctx, lg, sh, s) ==
    [err |-> NoErr, sdk |-> s,
     log |-> Append(lg, LogRec("info", "starting tracing provider", "")),
     shutdowns |-> sh]

OnStart ==
    /\ pc = "registered"
    /\ LET o == OnStartOut(result.Provider, HookCtx, <<>>, shutdowns, sdk)
         IN  /\ shutdowns' = o.shutdowns
             /\ sdk' = o.sdk
             /\ last' = [Call("OnStart", "fx", NoConfig, 0, Background, Background, o.err)
                            EXCEPT !.logs = o.log]
    /\ pc' = "started"
    /\ UNCHANGED <<how, result, globals, spans, otel, starts, budget, pure>>

\* an OnStop hook that calls provider.Shutdown(ctx) and drops its error
OnStopSwallowsError(p, ctx, sdkErr, lg, sh, s) ==
    LET o == ProviderShutdown(p, ctx, sdkErr, s)
    IN  [err |-> NoErr, sdk |-> o.sdk,
         log |-> Append(lg, LogRec("info", "stopping tracing provider", "")),
         shutdowns |-> Append(sh, ShutdownRec("hook", ctx, o.err)), calls |-> o.calls]

\* the OnStop hook: logs, then returns provider.Shutdown(ctx)
OnStopOut(p, ctx, sdkErr, lg, sh, s) ==
    LET o == ProviderShutdown(p, ctx, sdkErr, s)
    IN  [err |-> o.err, sdk |-> o.sdk,
         log |-> Append(lg, LogRec("info", "stopping tracing provider", "")),
         shutdowns |-> Append(sh, ShutdownRec("hook", ctx, o.err)), calls |-> o.calls]

OnStop ==
    /\ pc = "started"
    /\ SdkRoom(result.Provider)
    /\ \E sdkErr \in SdkShutdownErrs :
         LET o == OnStopOut(result.Provider, HookCtx, sdkErr, <<>>, shutdowns, sdk)
         IN  /\ shutdowns' = o.shutdowns
             /\ sdk' = o.sdk
             /\ last' = [Call("OnStop", "fx", NoConfig, 0, Background, Background, o.err)
                            EXCEPT !.logs = o.log, !.sdkCalls = o.calls]
    /\ pc' = "stopped"
    /\ UNCHANGED <<how, result, globals, spans, otel, starts, budget, pure>>

CallerShutdowns == Len(SelectSeq(shutdowns, LAMBDA r : r.by = "caller"))

\* a caller calls Provider.Shutdown itself
Shutdown ==
    /\ HasProvider
    /\ CallerShutdowns < MaxCallerShutdowns
    /\ SdkRoom(result.Provider)
    /\ \E sdkErr \in SdkShutdownErrs :
         LET o == ProviderShutdown(result.Provider, Background, sdkErr, sdk)
         IN  /\ sdk' = o.sdk
             /\ shutdowns' = Append(shutdowns, ShutdownRec("caller", Background, o.err))
             /\ last' = [Call("Shutdown", "caller", NoConfig, 0, Background, Background,
                              o.err) EXCEPT !.sdkCalls = o.calls]
    /\ UNCHANGED <<pc, how, result, globals, spans, otel, starts, budget, pure>>

----------------------------------------------------------------------------
(* Span options (tracer.go). *)

SpanKindInternal == 0
SpanKindServer == 1
SpanKindClient == 2
SpanKindProducer == 3
SpanKindConsumer == 4

NoAttrs == [x \in {} |-> [t |-> "", v |-> ""]]

Opt(name, kind, attrs, t) == [opt |-> name, kind |-> kind, attrs |-> attrs, t |-> t]

WithSpanKind(kind) == Opt("WithSpanKind", kind, NoAttrs, 0)
WithAttributes(attrs) == Opt("WithAttributes", 0, attrs, 0)
WithTimestamp(t) == Opt("WithTimestamp", 0, NoAttrs, t)

\* an option applied to a config where a key that is already set is kept
ApplyOptionKeepsFirst(o, c) ==
    CASE o.opt = "WithSpanKind" -> [c EXCEPT !.Kind = o.kind]
      [] o.opt = "WithAttributes" ->
            [c EXCEPT !.AttrsNil = FALSE,
                      !.Attributes =
                [x \in DOMAIN c.Attributes \cup DOMAIN o.attrs |->
                    IF x \in DOMAIN c.Attributes THEN c.Attributes[x] ELSE o.attrs[x]]]
      [] o.opt = "WithTimestamp" -> [c EXCEPT !.Timestamp = o.t]

\* one option applied to a config; AttrsNil says the Attributes map is nil,
\* which WithAttributes replaces by a new map before it writes
ApplyOption(o, c) ==
    CASE o.opt = "WithSpanKind" -> [c EXCEPT !.Kind = o.kind]
      [] o.opt = "WithAttributes" ->
            [c EXCEPT !.AttrsNil = FALSE,
                      !.Attributes =
                [x \in DOMAIN c.Attributes \cup DOMAIN o.attrs |->
                    IF x \in DOMAIN o.attrs THEN o.attrs[x] ELSE c.Attributes[x]]]
      [] o.opt = "WithTimestamp" -> [c EXCEPT !.Timestamp = o.t]

RECURSIVE ApplyAll(_, _)
ApplyAll(opts, c) ==
    IF opts = <<>> THEN c ELSE ApplyAll(Tail(opts), ApplyOption(Head(opts), c))

\* an applySpanOptions that starts from the zero SpanConfig: nil Attributes,
\* zero Timestamp
applySpanOptionsZero(opts, now) ==
    ApplyAll(opts, [Kind |-> SpanKindInternal, Attributes |-> NoAttrs, AttrsNil |-> TRUE,
                    Timestamp |-> 0])

\* tracer.go applySpanOptions; now is time.Now() at the call
applySpanOptions(opts, now) ==
    ApplyAll(opts, [Kind |-> SpanKindInternal, Attributes |-> NoAttrs, AttrsNil |-> FALSE,
                    Timestamp |-> now])

\* the wrapper kind cast to the SDK's kind, trace.SpanKind(kind): the SDK
\* counts from SpanKindUnspecified, one before internal
otelKindCast(kind) ==
    CASE kind = 0 -> "unspecified"
      [] kind = 1 -> "internal"
      [] kind = 2 -> "server"
      [] kind = 3 -> "client"
      [] kind = 4 -> "producer"
      [] kind = 5 -> "consumer"
      [] OTHER -> "unspecified"

\* provider_otlp.go Start: the wrapper kind as the SDK's kind
otelKind(kind) ==
    CASE kind = SpanKindInternal -> "internal"
      [] kind = SpanKindServer -> "server"
      [] kind = SpanKindClient -> "client"
      [] kind = SpanKindProducer -> "producer"
      [] kind = SpanKindConsumer -> "consumer"
      [] OTHER -> "internal"

\* fmt.Sprintf("%v", v) for the values of the model that reach toAttribute's
\* default arm: nil, an error (its message), an unsigned integer (its
\* digits), a struct with one string field (the field in braces)
Sprintf(value) ==
    CASE value.t = "nil" -> "<nil>"
      [] value.t = "error" -> value.v
      [] value.t = "uint" -> value.v
      [] value.t = "custom" -> "{" \o value.v \o "}"
      [] OTHER -> value.v

\* a toAttribute that formats every value: all attributes are strings
toAttributeAllStrings(key, value) ==
    [key |-> key, type |-> "STRING", v |-> Sprintf(value)]

\* provider_otlp.go toAttribute: a value [t, v] (its Go type and the value
\* as a literal) as the SDK's typed attribute value
toAttribute(key, value) ==
    CASE value.t = "string" -> [key |-> key, type |-> "STRING", v |-> value.v]
      [] value.t = "int" -> [key |-> key, type |-> "INT64", v |-> value.v]
      [] value.t = "int64" -> [key |-> key, type |-> "INT64", v |-> value.v]
      [] value.t = "float64" -> [key |-> key, type |-> "FLOAT64", v |-> value.v]
      [] value.t = "bool" -> [key |-> key, type |-> "BOOL", v |-> value.v]
      [] value.t = "[]string" -> [key |-> key, type |-> "STRINGSLICE", v |-> value.v]
      [] value.t = "[]int" -> [key |-> key, type |-> "INT64SLICE", v |-> value.v]
      [] value.t = "[]int64" -> [key |-> key, type |-> "INT64SLICE", v |-> value.v]
      [] value.t = "[]float64" -> [key |-> key, type |-> "FLOAT64SLICE", v |-> value.v]
      [] value.t = "[]bool" -> [key |-> key, type |-> "BOOLSLICE", v |-> value.v]
      [] OTHER -> [key |-> key, type |-> "STRING", v |-> Sprintf(value)]

\* the inputs of the model
GoValues == {[t |-> "string", v |-> "GET"]}

TagKeys == {"http.method"}

OptLists ==
    { <<>>,
      <<WithSpanKind(SpanKindServer),
        WithAttributes([x \in TagKeys |-> [t |-> "string", v |-> "GET"]]),
        WithTimestamp(0)>> }

OpNames == {"op"}

----------------------------------------------------------------------------
(* The SDK's side of a span. *)

\* the span context the SDK finds in a context: the current span's, local or
\* remote, and the invalid one when there is none
SpanContextOf(ctx, heap) ==
    LET e == Value(ctx, OtelSpanKey)
    IN  IF e.k # OtelSpanKey THEN NoValue
        ELSE IF e.ref # 0 THEN [tid |-> heap[e.ref].tid, sid |-> heap[e.ref].sid]
        ELSE [tid |-> e.tid, sid |-> e.sid]

IsValid(sc) == sc.tid # 0 /\ sc.sid # 0

\* trace.Tracer.Start: the new SDK span, a child of the context's span context
SdkStart(ctx, name, kind, attrs, start, heap, s) ==
    LET parent == SpanContextOf(ctx, heap)
        id == Len(heap) + 1
    IN  [tid |-> IF IsValid(parent) THEN parent.tid ELSE id,
         sid |-> id,
         name |-> name,
         kind |-> kind,
         attrs |-> attrs,
         start |-> start,
         recording |-> ~s.shut,
         ended |-> FALSE,
         events |-> <<>>]

\* the identifiers as hex strings
Hex(n) ==
    CASE n = 0 -> "00" [] n = 1 -> "01" [] n = 2 -> "02" [] n = 3 -> "03"
      [] n = 4 -> "04" [] n = 5 -> "05" [] n = 9 -> "09" [] OTHER -> "ff"

----------------------------------------------------------------------------
(* Start. *)

\* the attribute list of provider_otlp.go Start, as the SDK keeps it: by key
ToAttributes(attributes) ==
    [x \in DOMAIN attributes |-> toAttribute(x, attributes[x])]

\* a noopProvider.Start that hands out one shared span, the first it made
noopStartShared(ctx, name, opts, hs, ho, s) ==
    LET span == [impl |-> "noop", ctx |-> ctx, sdk |-> 0]
    IN  [ctx |-> ContextWithSpan(ctx, 1), span |-> 1,
         spans |-> IF hs = <<>> THEN <<span>> ELSE hs, otel |-> ho]

\* noopProvider.Start
noopStart(ctx, name, opts, hs, ho, s) ==
    LET id == Len(hs) + 1
        span == [impl |-> "noop", ctx |-> ctx, sdk |-> 0]
    IN  [ctx |-> ContextWithSpan(ctx, id), span |-> id,
         spans |-> Append(hs, span), otel |-> ho]

\* an otlpProvider.Start that passes the config's Timestamp whatever it is,
\* the zero time too
otlpStartAlwaysTimestamp(ctx, name, opts, hs, ho, s) ==
    LET now == Len(hs) + 1
        config == applySpanOptions(opts, now)
        start == [given |-> TRUE, t |-> config.Timestamp]
        otelSpan == SdkStart(ctx, name, otelKind(config.Kind),
                             ToAttributes(config.Attributes), start, ho, s)
        octx == WithValue(ctx, Entry(OtelSpanKey, Len(ho) + 1, 0, 0))
        id == Len(hs) + 1
        span == [impl |-> "otlp", ctx |-> octx, sdk |-> Len(ho) + 1]
    IN  [ctx |-> ContextWithSpan(octx, id), span |-> id,
         spans |-> Append(hs, span), otel |-> Append(ho, otelSpan)]

\* an otlpProvider.Start whose span keeps the context Start returns, the one
\* that carries the span
otlpStartKeepsOwnCtx(ctx, name, opts, hs, ho, s) ==
    LET now == Len(hs) + 1
        config == applySpanOptions(opts, now)
        start == IF config.Timestamp # 0
                 THEN [given |-> TRUE, t |-> config.Timestamp]
                 ELSE [given |-> FALSE, t |-> now]
        otelSpan == SdkStart(ctx, name, otelKind(config.Kind),
                             ToAttributes(config.Attributes), start, ho, s)
        octx == WithValue(ctx, Entry(OtelSpanKey, Len(ho) + 1, 0, 0))
        id == Len(hs) + 1
        span == [impl |-> "otlp", ctx |-> ContextWithSpan(octx, id), sdk |-> Len(ho) + 1]
    IN  [ctx |-> ContextWithSpan(octx, id), span |-> id,
         spans |-> Append(hs, span), otel |-> Append(ho, otelSpan)]

\* otlpProvider.Start
otlpStart(ctx, name, opts, hs, ho, s) ==
    LET now == Len(hs) + 1
        config == applySpanOptions(opts, now)
        start == IF config.Timestamp # 0
                 THEN [given |-> TRUE, t |-> config.Timestamp]
                 ELSE [given |-> FALSE, t |-> now]
        otelSpan == SdkStart(ctx, name, otelKind(config.Kind),
                             ToAttributes(config.Attributes), start, ho, s)
        octx == WithValue(ctx, Entry(OtelSpanKey, Len(ho) + 1, 0, 0))
        id == Len(hs) + 1
        span == [impl |-> "otlp", ctx |-> octx, sdk |-> Len(ho) + 1]
    IN  [ctx |-> ContextWithSpan(octx, id), span |-> id,
         spans |-> Append(hs, span), otel |-> Append(ho, otelSpan)]

\* Tracer.Start on the provider p
StartOut(p, ctx, name, opts, hs, ho, s) ==
    IF p.impl = "otlp" THEN otlpStart(ctx, name, opts, hs, ho, s)
    ELSE noopStart(ctx, name, opts, hs, ho, s)

StartRec(inCtx, ctx, span) == [inCtx |-> inCtx, ctx |-> ctx, span |-> span]

Start ==
    /\ HasProvider
    /\ Len(spans) < MaxSpans
    /\ SdkRoom(result.Tracer)
    /\ \E ctx \in Ctxs, name \in OpNames, opts \in OptLists :
         LET o == StartOut(result.Tracer, ctx, name, opts, spans, otel, sdk)
         IN  /\ spans' = o.spans
             /\ otel' = o.otel
             /\ starts' = Append(starts, StartRec(ctx, o.ctx, o.span))
             /\ last' = Call("Start", "caller", NoConfig, o.span, ctx, o.ctx, NoErr)
    /\ sdk' = IF result.Tracer.impl = "otlp" THEN [sdk EXCEPT !.calls = @ + 1] ELSE sdk
    /\ UNCHANGED <<pc, how, result, globals, shutdowns, budget, pure>>

----------------------------------------------------------------------------
(* Extract and Inject. *)

\* the global propagator's Extract: TraceContext, then Baggage (no baggage
\* header is modelled, so Baggage leaves the context alone)
PropagatorExtract(prop, ctx, adapter, m) ==
    LET sc == CarrierGet(adapter, m, TraceParent)
    IN  IF prop = "noop" \/ ~IsValid(sc) THEN ctx
        ELSE WithValue(ctx, Entry(OtelSpanKey, 0, sc.tid, sc.sid))

\* the global propagator's Inject
PropagatorInject(prop, ctx, adapter, m, ho) ==
    LET sc == SpanContextOf(ctx, ho)
    IN  IF prop = "noop" \/ ~IsValid(sc) THEN m
        ELSE CarrierSet(adapter, m, TraceParent, sc)

\* noopProvider.Extract
noopExtract(ctx, car, g) == [ctx |-> ctx, err |-> NoErr]

\* an otlpProvider.Extract that reads the carrier's headers before it
\* rejects the carrier's type
otlpExtractThenReject(ctx, car, g) ==
    LET adapter == CarrierCase(car.type)
    IN  IF adapter = "unsupported"
        THEN [ctx |-> PropagatorExtract(g.prop, ctx, "MapCarrier", car.m),
              err |-> UnsupportedCarrier(car.type)]
        ELSE [ctx |-> PropagatorExtract(g.prop, ctx, adapter, car.m), err |-> NoErr]

\* otlpProvider.Extract
otlpExtract(ctx, car, g) ==
    LET adapter == CarrierCase(car.type)
    IN  IF adapter = "unsupported"
        THEN [ctx |-> ctx, err |-> UnsupportedCarrier(car.type)]
        ELSE [ctx |-> PropagatorExtract(g.prop, ctx, adapter, car.m), err |-> NoErr]

ExtractOut(p, ctx, car, g) ==
    IF p.impl = "otlp" THEN otlpExtract(ctx, car, g) ELSE noopExtract(ctx, car, g)

\* a noopProvider.Inject that writes an (empty) traceparent header
noopInjectWrites(ctx, car, g, ho) ==
    [m |-> headerCarrierSet(car.m, TraceParent, NoValue), err |-> NoErr]

\* noopProvider.Inject
noopInject(ctx, car, g, ho) == [m |-> car.m, err |-> NoErr]

\* otlpProvider.Inject
otlpInject(ctx, car, g, ho) ==
    LET adapter == CarrierCase(car.type)
    IN  IF adapter = "unsupported"
        THEN [m |-> car.m, err |-> UnsupportedCarrier(car.type)]
        ELSE [m |-> PropagatorInject(g.prop, ctx, adapter, car.m, ho), err |-> NoErr]

InjectOut(p, ctx, car, g, ho) ==
    IF p.impl = "otlp" THEN otlpInject(ctx, car, g, ho)
    ELSE noopInject(ctx, car, g, ho)

\* whether the call reaches the SDK's propagator
Propagates(p, c) == p.impl = "otlp" /\ CarrierCase(c.type) # "unsupported"

Extract ==
    /\ HasProvider
    /\ \E ctx \in Ctxs, c \in Carriers :
         LET o == ExtractOut(result.Tracer, ctx, c, globals)
         IN  /\ Propagates(result.Tracer, c) => sdk.calls < budget
             /\ sdk' = IF Propagates(result.Tracer, c) THEN [sdk EXCEPT !.calls = @ + 1]
                       ELSE sdk
             /\ last' = [Call("Extract", "caller", NoConfig, 0, ctx, o.ctx, o.err)
                            EXCEPT !.carrierIn = c, !.carrier = c]
    /\ UNCHANGED <<pc, how, result, globals, spans, otel, shutdowns, starts, budget, pure>>

Inject ==
    /\ HasProvider
    /\ \E ctx \in Ctxs, c \in Carriers :
         LET o == InjectOut(result.Tracer, ctx, c, globals, otel)
         IN  /\ Propagates(result.Tracer, c) => sdk.calls < budget
             /\ sdk' = IF Propagates(result.Tracer, c) THEN [sdk EXCEPT !.calls = @ + 1]
                       ELSE sdk
             /\ last' = [Call("Inject", "caller", NoConfig, 0, ctx, ctx, o.err)
                            EXCEPT !.carrierIn = c, !.carrier = [c EXCEPT !.m = o.m]]
    /\ UNCHANGED <<pc, how, result, globals, spans, otel, shutdowns, starts, budget, pure>>

----------------------------------------------------------------------------
(* Span methods.  The SDK span takes changes only while it records and has  *)
(* not ended.                                                               *)

Live(o) == o.recording /\ ~o.ended

SdkSetAttribute(o, kv) ==
    IF Live(o)
    THEN [o EXCEPT !.attrs = [x \in DOMAIN o.attrs \cup {kv.key} |->
                                 IF x = kv.key THEN kv ELSE o.attrs[x]]]
    ELSE o

SdkAddEvent(o, name, attrs) ==
    IF Live(o) THEN [o EXCEPT !.events = Append(o.events, [name |-> name, attrs |-> attrs])]
    ELSE o

\* trace.Span.RecordError: nothing for a nil error
SdkRecordError(o, err) ==
    IF err = NoErr THEN o
    ELSE SdkAddEvent(o, "exception",
                     <<[key |-> "exception.message", type |-> "STRING", v |-> err]>>)

\* What a span method leaves behind: the wrapper heap, the SDK heap, the SDK
\* provider, and the calls it made on the SDK span.
After(hs, ho, s) == [spans |-> hs, otel |-> ho, sdk |-> s, calls |-> <<>>]

\* a noopSpan.End that releases the context the span holds
noopSpanEndClearsCtx(i, hs, ho, s) == After([hs EXCEPT ![i].ctx = Background], ho, s)

\* noopSpan.End, SetTag, SetError, LogFields: empty bodies
noopSpanEnd(i, hs, ho, s) == After(hs, ho, s)

noopSpanSetTag(i, key, value, hs, ho, s) == After(hs, ho, s)

noopSpanSetError(i, err, hs, ho, s) == After(hs, ho, s)

noopSpanLogFields(i, fields, hs, ho, s) == After(hs, ho, s)

RECURSIVE SdkSetAttributes(_, _)
SdkSetAttributes(o, kvs) ==
    IF kvs = <<>> THEN o ELSE SdkSetAttributes(SdkSetAttribute(o, Head(kvs)), Tail(kvs))

\* the SDK span after one call
SdkApply(o, c) ==
    CASE c.fn = "End" -> [o EXCEPT !.ended = TRUE]
      [] c.fn = "SetAttributes" -> SdkSetAttributes(o, c.attrs)
      [] c.fn = "RecordError" -> SdkRecordError(o, c.err)
      [] c.fn = "AddEvent" -> SdkAddEvent(o, c.name, c.attrs)

RECURSIVE SdkApplyAll(_, _)
SdkApplyAll(o, calls) ==
    IF calls = <<>> THEN o ELSE SdkApplyAll(SdkApply(o, Head(calls)), Tail(calls))

\* an otlpSpan method: its calls reach the SDK span s.span in order; a span
\* that ends while it records is queued for export
Forward(i, calls, hs, ho, s) ==
    LET k == hs[i].sdk
        ends == \E n \in DOMAIN calls : calls[n].fn = "End"
    IN  [spans |-> hs,
         otel |-> [ho EXCEPT ![k] = SdkApplyAll(ho[k], calls)],
         sdk |-> IF ends /\ Live(ho[k]) /\ ~s.shut
                 THEN [s EXCEPT !.queued = s.queued \cup {k}] ELSE s,
         calls |-> calls]

ErrorTrue == [key |-> "error", type |-> "BOOL", v |-> "true"]

\* otlpSpan.End
otlpSpanEnd(i, hs, ho, s) == Forward(i, <<SdkCall("End", NoErr, "", <<>>)>>, hs, ho, s)

\* otlpSpan.SetTag
otlpSpanSetTag(i, key, value, hs, ho, s) ==
    Forward(i, <<SdkCall("SetAttributes", NoErr, "", <<toAttribute(key, value)>>)>>,
            hs, ho, s)

\* an otlpSpan.SetError that sets the attribute first and records the error after
otlpSpanSetErrorSwapped(i, err, hs, ho, s) ==
    Forward(i, <<SdkCall("SetAttributes", NoErr, "", <<ErrorTrue>>),
                 SdkCall("RecordError", err, "", <<>>)>>,
            hs, ho, s)

\* otlpSpan.SetError
otlpSpanSetError(i, err, hs, ho, s) ==
    Forward(i, <<SdkCall("RecordError", err, "", <<>>),
                 SdkCall("SetAttributes", NoErr, "", <<ErrorTrue>>)>>,
            hs, ho, s)

\* an otlpSpan.LogFields that adds one event per field
otlpSpanLogFieldsEach(i, fields, hs, ho, s) ==
    Forward(i, [n \in DOMAIN fields |->
                   SdkCall("AddEvent", NoErr, "log",
                           <<toAttribute(fields[n].Key, fields[n].Value)>>)],
            hs, ho, s)

\* otlpSpan.LogFields
otlpSpanLogFields(i, fields, hs, ho, s) ==
    Forward(i, <<SdkCall("AddEvent", NoErr, "log",
                         [n \in DOMAIN fields |->
                             toAttribute(fields[n].Key, fields[n].Value)])>>,
            hs, ho, s)

\* Span.End, SetTag, SetError, LogFields on the span i (dynamic dispatch)
SpanEnd(i, hs, ho, s) ==
    IF hs[i].impl = "otlp" THEN otlpSpanEnd(i, hs, ho, s) ELSE noopSpanEnd(i, hs, ho, s)

SpanSetTag(i, key, value, hs, ho, s) ==
    IF hs[i].impl = "otlp" THEN otlpSpanSetTag(i, key, value, hs, ho, s)
    ELSE noopSpanSetTag(i, key, value, hs, ho, s)

SpanSetError(i, err, hs, ho, s) ==
    IF hs[i].impl = "otlp" THEN otlpSpanSetError(i, err, hs, ho, s)
    ELSE noopSpanSetError(i, err, hs, ho, s)

SpanLogFields(i, fields, hs, ho, s) ==
    IF hs[i].impl = "otlp" THEN otlpSpanLogFields(i, fields, hs, ho, s)
    ELSE noopSpanLogFields(i, fields, hs, ho, s)

\* noopSpan.Context / otlpSpan.Context
SpanContext(sp) == sp.ctx

\* noopSpan.TraceID, SpanID
noopSpanTraceID(sp) == ""

noopSpanSpanID(sp) == ""

\* Span.TraceID / Span.SpanID
TraceID(sp, ho) == IF sp.impl = "otlp" THEN Hex(ho[sp.sdk].tid) ELSE noopSpanTraceID(sp)

SpanID(sp, ho) == IF sp.impl = "otlp" THEN Hex(ho[sp.sdk].sid) ELSE noopSpanSpanID(sp)

Errs == {NoErr, "simulated error"}

FieldLists ==
    { <<>>,
      <<[Key |-> "event", Value |-> [t |-> "string", v |-> "GET"]]>>,
      <<[Key |-> "event", Value |-> [t |-> "string", v |-> "GET"]],
        [Key |-> "ttl", Value |-> [t |-> "int", v |-> "300"]]>> }

\* the SDK takes one more call on the span sp
SpanRoom(sp) == sp.impl = "otlp" => sdk.calls < budget

Counted(sp, s) == IF sp.impl = "otlp" THEN [s EXCEPT !.calls = @ + 1] ELSE s

SpanCall(op, i) == Call(op, "caller", NoConfig, i, Background, Background, NoErr)

\* a span method's step: the heaps after it, one more SDK call if forwarded
SpanStep(op, i, err, fields, o) ==
    /\ SpanRoom(spans[i])
    /\ spans' = o.spans
    /\ otel' = o.otel
    /\ sdk' = Counted(spans[i], o.sdk)
    /\ last' = [SpanCall(op, i) EXCEPT
                    !.errArg = err, !.fields = fields, !.sdkCalls = o.calls,
                    !.before = IF spans[i].sdk = 0 THEN NoSdkSpan ELSE otel[spans[i].sdk]]
    /\ UNCHANGED <<pc, how, result, globals, shutdowns, starts, budget, pure>>

End == \E i \in DOMAIN spans : SpanStep("End", i, NoErr, <<>>, SpanEnd(i, spans, otel, sdk))

SetTag ==
    \E i \in DOMAIN spans, key \in TagKeys, value \in GoValues :
        SpanStep("SetTag", i, NoErr, <<[Key |-> key, Value |-> value]>>,
                 SpanSetTag(i, key, value, spans, otel, sdk))

SetError ==
    \E i \in DOMAIN spans, err \in Errs :
        SpanStep("SetError", i, err, <<>>, SpanSetError(i, err, spans, otel, sdk))

LogFields ==
    \E i \in DOMAIN spans, fields \in FieldLists :
        SpanStep("LogFields", i, NoErr, fields, SpanLogFields(i, fields, spans, otel, sdk))

\* the SDK's batch processor exports what is queued, in the background
SdkExport ==
    /\ sdk.queued # {}
    /\ ~sdk.shut
    /\ sdk' = [sdk EXCEPT !.queued = {}, !.exported = sdk.exported \cup sdk.queued]
    /\ UNCHANGED <<pc, how, result, globals, spans, otel, shutdowns, starts, last, budget, pure>>

----------------------------------------------------------------------------

Next ==
    \/ NewTracer
    \/ NewDirect
    \/ registerLifecycle
    \/ OnStart
    \/ OnStop
    \/ Shutdown
    \/ Start
    \/ Extract
    \/ Inject
    \/ End
    \/ SetTag
    \/ SetError
    \/ LogFields
    \/ SdkExport

Spec == Init /\ [][Next]_vars

----------------------------------------------------------------------------
(* The process-wide registration: every construction a process performs,   *)
(* the first and the later ones, and the operations that read the global   *)
(* propagator or end the provider.                                         *)

ProcessNext ==
    \/ NewTracer
    \/ NewDirect
    \/ Reconstruct
    \/ Extract
    \/ Inject
    \/ Shutdown

ProcessSpec == Init /\ [][ProcessNext]_vars

----------------------------------------------------------------------------
(* The providers and their spans without propagation: Extract and Inject   *)
(* left out, one more call forwarded to the SDK.                           *)

SpanInit == Boot /\ budget = MaxSpanCalls

SpanNext ==
    \/ NewTracer
    \/ NewDirect
    \/ registerLifecycle
    \/ OnStart
    \/ OnStop
    \/ Shutdown
    \/ Start
    \/ End
    \/ SetTag
    \/ SetError
    \/ LogFields
    \/ SdkExport

SpanSpec == SpanInit /\ [][SpanNext]_vars

----------------------------------------------------------------------------
(* Configuration.  A Go map is a reference: Config.OTLP.Headers is an       *)
(* address into a heap of maps (a sequence; 0 is the nil map), so that a    *)
(* copy of the Config shares the map until a new one is made.               *)

Redacted == "[redacted]"

UpperCase == "ABCDEFGHIJKLMNOPQRSTUVWXYZ"
LowerCase == "abcdefghijklmnopqrstuvwxyz"

\* strings.ToLower on one character
LowerChar(ch) ==
    IF \E i \in 1..Len(UpperCase) : SubSeq(UpperCase, i, i) = ch
    THEN LET i == CHOOSE j \in 1..Len(UpperCase) : SubSeq(UpperCase, j, j) = ch
         IN  SubSeq(LowerCase, i, i)
    ELSE ch

RECURSIVE ToLower(_)
\* strings.ToLower
ToLower(str) ==
    IF Len(str) = 0 THEN ""
    ELSE LowerChar(SubSeq(str, 1, 1)) \o ToLower(SubSeq(str, 2, Len(str)))

\* strings.Contains
Contains(str, substr) ==
    \E i \in 1..(Len(str) - Len(substr) + 1) :
        SubSeq(str, i, i + Len(substr) - 1) = substr

\* Sanitize's test of a header key exactly as written: no lowering of the key
SecretKeyCaseSensitive(k) ==
    \/ Contains(k, "token")
    \/ Contains(k, "key")
    \/ Contains(k, "secret")
    \/ Contains(k, "authorization")

\* Sanitize's test of a header key
SecretKey(k) ==
    LET lk == ToLower(k)
    IN  \/ Contains(lk, "token")
        \/ Contains(lk, "key")
        \/ Contains(lk, "secret")
        \/ Contains(lk, "authorization")

\* the value Sanitize writes for each header of a map
RedactedMap(src) ==
    [k \in DOMAIN src |-> IF SecretKey(k) THEN Redacted ELSE src[k]]

\* Config.Sanitize: the copy and the heap after the call
Sanitize(c, heap) ==
    IF c.OTLP.Headers # 0
    THEN [out |-> [c EXCEPT !.OTLP.Headers = Len(heap) + 1],
          heap |-> Append(heap, RedactedMap(heap[c.OTLP.Headers]))]
    ELSE [out |-> c, heap |-> heap]

\* a NewConfig that sanitizes what it bound before it returns it
NewConfigSanitizing(loader, heap) ==
    IF loader.err # NoErr
    THEN [cfg |-> loader.cfg, err |-> loader.err, heap |-> heap]
    ELSE [cfg |-> Sanitize(loader.cfg, heap).out, err |-> NoErr,
          heap |-> Sanitize(loader.cfg, heap).heap]

\* config.go NewConfig: the loader binds a Config (loader.cfg is what Bind
\* wrote, loader.err what it returned) and NewConfig returns both as they are
NewConfig(loader, heap) ==
    IF loader.err # NoErr
    THEN [cfg |-> loader.cfg, err |-> loader.err, heap |-> heap]
    ELSE [cfg |-> loader.cfg, err |-> NoErr, heap |-> heap]

\* len() of a header map
HeaderLen(c, heap) ==
    IF c.OTLP.Headers = 0 THEN 0 ELSE Cardinality(DOMAIN heap[c.OTLP.Headers])

\* provider_otlp.go newOTLPProvider: the options the exporter is built with
ExporterOptions(config, heap) ==
    <<[opt |-> "WithEndpoint", endpoint |-> config.OTLP.Endpoint, headers |-> EmptyMap]>>
        \o (IF config.OTLP.Insecure
            THEN <<[opt |-> "WithTLSCredentials", endpoint |-> "", headers |-> EmptyMap]>>
            ELSE <<>>)
        \o (IF HeaderLen(config, heap) > 0
            THEN <<[opt |-> "WithHeaders", endpoint |-> "",
                    headers |-> heap[config.OTLP.Headers]]>>
            ELSE <<>>)

----------------------------------------------------------------------------
(* The helpers that touch no provider, called on their own: a behaviour is  *)
(* one call, which draws its arguments, and `pure` keeps the call and what  *)
(* it returned.                                                             *)

\* the provider machine's variables, which a helper leaves alone
machine ==
    <<pc, how, result, globals, spans, otel, sdk, shutdowns, starts, last, budget>>

\* what a context can hold: a span (or a nil Span value) under
\* spanContextKey{}, the SDK's current span, fx's timeout
CtxEntries ==
    {Entry(SpanContextKey, r, 0, 0) : r \in 0..MaxSpans}
        \cup {Entry(OtelSpanKey, 1, 0, 0), Entry("fx.timeout", 0, 0, 0)}

\* the contexts a caller may hold
HelperCtxs == UNION {[1..n -> CtxEntries] : n \in 0..MaxCtxLen}

\* a caller attaches a span (0: a nil Span) and reads it back
CallContextWithSpan ==
    /\ pure = NoHelperCall
    /\ \E ctx \in HelperCtxs, span \in 0..MaxSpans :
         pure' = [op |-> "ContextWithSpan", inCtx |-> ctx, span |-> span,
                  ctx |-> ContextWithSpan(ctx, span),
                  got |-> SpanFromContext(ContextWithSpan(ctx, span))]
    /\ UNCHANGED machine

\* a caller reads the span of a context
CallSpanFromContext ==
    /\ pure = NoHelperCall
    /\ \E ctx \in HelperCtxs :
         pure' = [op |-> "SpanFromContext", inCtx |-> ctx, got |-> SpanFromContext(ctx)]
    /\ UNCHANGED machine

\* the header names and values a deployment may configure
HeaderKeys ==
    {"api-key", "Authorization", "X-SECRET", "x-Token-id", "custom-header",
     "monkey", "tenant-id"}

HeaderValues == {"safe-value", "Bearer secret-token", Redacted}

HeaderMaps ==
    UNION {[ks -> HeaderValues] :
              ks \in {keys \in SUBSET HeaderKeys : Cardinality(keys) <= MaxHeaders}}

\* the Configs a loader may bind: Headers is 0 (nil) or the address of the
\* one map on the heap
BoundConfigs ==
    [Enabled : BOOLEAN, Provider : {"otlp"}, ServiceName : {"test-service"},
     OTLP : [Endpoint : {"localhost:4317"}, Insecure : BOOLEAN, Headers : {0, 1}]]

\* the heap a Config lives on
HeapOf(c, m) == IF c.OTLP.Headers = 0 THEN <<>> ELSE <<m>>

\* what Bind may return
BindErrs == {NoErr, "bind failed"}

\* a caller (logx.Any, a test) sanitizes a Config
CallSanitize ==
    /\ pure = NoHelperCall
    /\ \E c \in BoundConfigs, m \in HeaderMaps :
         LET o == Sanitize(c, HeapOf(c, m))
         IN  pure' = [op |-> "Sanitize", c |-> c, heap0 |-> HeapOf(c, m),
                      out |-> o.out, heap |-> o.heap]
    /\ UNCHANGED machine

\* fx calls NewConfig; the Config it returns is the one NewTracer hands to
\* newOTLPProvider, which builds the exporter's options from it
CallNewConfig ==
    /\ pure = NoHelperCall
    /\ \E c \in BoundConfigs, m \in HeaderMaps, err \in BindErrs :
         LET loader == [cfg |-> c, err |-> err]
             o == NewConfig(loader, HeapOf(c, m))
         IN  pure' = [op |-> "NewConfig", loader |-> loader, heap0 |-> HeapOf(c, m),
                      cfg |-> o.cfg, err |-> o.err, heap |-> o.heap,
                      opts |-> IF o.err = NoErr THEN ExporterOptions(o.cfg, o.heap)
                               ELSE <<>>]
    /\ UNCHANGED machine

\* the span options a caller may pass: kinds (7 is no constant of the
\* package), attribute maps that share the key "a", times (0 is the zero
\* time.Time)
HelperOpts ==
    {WithSpanKind(k) : k \in {SpanKindServer, SpanKindClient, 7}}
        \cup {WithAttributes(m) :
                 m \in {NoAttrs,
                        [x \in {"a"} |-> [t |-> "string", v |-> "one"]],
                        [x \in {"a", "b"} |-> [t |-> "string", v |-> "two"]]}}
        \cup {WithTimestamp(t) : t \in {0, 3, 5}}

HelperOptLists == UNION {[1..n -> HelperOpts] : n \in 0..MaxOpts}

\* what time.Now() may return: never the zero time
Clock == {8, 9}

\* a caller builds a SpanConfig from options
CallApplySpanOptions ==
    /\ pure = NoHelperCall
    /\ \E opts \in HelperOptLists, now \in Clock :
         pure' = [op |-> "applySpanOptions", opts |-> opts, now |-> now,
                  config |-> applySpanOptions(opts, now)]
    /\ UNCHANGED machine

\* the headers a caller may hold: names that differ in case only, lists of
\* zero to MaxVals values, and the nil map
ShimKeys == {"traceparent", "Traceparent", "tracestate"}

ShimValues == {RemoteValue, [tid |-> 1, sid |-> 1]}

ShimLists == UNION {[1..n -> ShimValues] : n \in 0..MaxVals}

ShimMaps ==
    {HeaderValue(TRUE, EmptyMap)}
        \cup {HeaderValue(FALSE, m) : m \in UNION {[ks -> ShimLists] : ks \in SUBSET ShimKeys}}

\* a caller wraps a map[string][]string in the shim and calls Get, Keys and
\* Set on it, then Get again
CallHeaderCarrier ==
    /\ pure = NoHelperCall
    /\ \E h \in ShimMaps, key \in ShimKeys, value \in ShimValues :
         LET o == headerCarrierSetOn(h, key, value)
         IN  pure' = [op |-> "headerCarrier", h |-> h, key |-> key, value |-> value,
                      got |-> headerCarrierGet(h.m, key),
                      keys |-> headerCarrierKeys(h.m),
                      panic |-> o.panic,
                      after |-> o.h,
                      gotAfter |-> headerCarrierGet(o.h.m, key)]
    /\ UNCHANGED machine

\* every value a SpanKind can hold near the five constants
KindValues == (0 - 1)..6

\* the option lists of a Start called on its own
StartOptLists == HelperOptLists \cup {<<WithSpanKind(k)>> : k \in KindValues}

\* an SDK tracer provider that is just built
NewSdk == [shut |-> FALSE, queued |-> {}, exported |-> {}, calls |-> 0]

\* a caller starts the first span of a pass-through provider
CallOtlpStart ==
    /\ pure = NoHelperCall
    /\ \E opts \in StartOptLists :
         LET hs == <<>>
             o == otlpStart(Background, "op", opts, hs, <<>>, NewSdk)
         IN  pure' = [op |-> "otlpStart", opts |-> opts, now |-> Len(hs) + 1,
                      sdkSpan |-> o.otel[o.spans[o.span].sdk]]
    /\ UNCHANGED machine

\* the values a caller may give as a tag, an attribute or a field: one of
\* each type toAttribute names, and four of other types
AttrValues ==
    {[t |-> "string", v |-> "value"], [t |-> "int", v |-> "42"],
     [t |-> "int64", v |-> "1234567890"], [t |-> "float64", v |-> "3.14"],
     [t |-> "bool", v |-> "true"], [t |-> "[]string", v |-> "[a b c]"],
     [t |-> "[]int", v |-> "[1 2 3]"], [t |-> "[]int64", v |-> "[100 200 300]"],
     [t |-> "[]float64", v |-> "[1.1 2.2 3.3]"], [t |-> "[]bool", v |-> "[true false true]"],
     [t |-> "nil", v |-> ""], [t |-> "error", v |-> "boom"],
     [t |-> "uint", v |-> "7"], [t |-> "custom", v |-> "test"]}

AttrKeys == {"key", ""}

\* a caller converts a value, and gives the same key and value to Start,
\* SetTag and LogFields of a pass-through provider
CallToAttribute ==
    /\ pure = NoHelperCall
    /\ \E key \in AttrKeys, value \in AttrValues :
         LET o == otlpStart(Background, "op",
                            <<WithAttributes([x \in {key} |-> value])>>, <<>>, <<>>, NewSdk)
         IN  pure' = [op |-> "toAttribute", key |-> key, value |-> value,
                      attr |-> toAttribute(key, value),
                      started |-> o.otel[o.spans[o.span].sdk].attrs,
                      tagged |-> otlpSpanSetTag(o.span, key, value,
                                                o.spans, o.otel, NewSdk).calls,
                      logged |-> otlpSpanLogFields(o.span, <<[Key |-> key, Value |-> value]>>,
                                                   o.spans, o.otel, NewSdk).calls]
    /\ UNCHANGED machine

HelperNext ==
    \/ CallApplySpanOptions
    \/ CallOtlpStart
    \/ CallToAttribute
    \/ CallHeaderCarrier
    \/ CallContextWithSpan
    \/ CallSpanFromContext
    \/ CallSanitize
    \/ CallNewConfig

HelperSpec == Init /\ [][HelperNext]_vars

----------------------------------------------------------------------------
(* Properties. *)

IsNoop == result.Provider.impl = "noop"
IsOtlp == result.Provider.impl = "otlp"

C2_ConstructionFailure ==
    /\ last.op \in {"NewTracer", "newotlp"} /\ last.err # NoErr =>
         /\ last.err \in {ExporterErr, ResourceErr}
         /\ result.Tracer = NilProv
         /\ result.Provider = NilProv
         /\ pc = "failed"
    /\ last.op = "NewTracer" /\ last.config.Enabled /\ last.config.Provider = "otlp" =>
         ~IsNoop /\ (last.err = NoErr <=> IsOtlp)
    /\ last.op = "newotlp" => ~IsNoop /\ (last.err = NoErr <=> IsOtlp)

C2_Witness ==
    /\ last.op = "NewTracer"
    /\ last.err = ResourceErr
    /\ result.Tracer = NilProv
    /\ result.Provider = NilProv

HookShutdowns == SelectSeq(shutdowns, LAMBDA r : r.by = "hook")

C3_State ==
    /\ last.op = "OnStart" =>
         /\ last.err = NoErr
         /\ last.logs = <<LogRec("info", "starting tracing provider", "")>>
    /\ pc # "stopped" => HookShutdowns = <<>>
    /\ pc = "stopped" => Len(HookShutdowns) = 1 /\ HookShutdowns[1].ctx = HookCtx
    /\ last.op = "OnStop" =>
         /\ shutdowns # <<>>
         /\ shutdowns[Len(shutdowns)].by = "hook"
         /\ last.err = shutdowns[Len(shutdowns)].err

C3_Step ==
    /\ pc = "registered" /\ pc' = "started" =>
         UNCHANGED <<result, globals, spans, otel, sdk, shutdowns, starts>>
    /\ pc = "started" /\ pc' = "stopped" =>
         /\ Len(shutdowns') = Len(shutdowns) + 1
         /\ IsOtlp => sdk'.calls = sdk.calls + 1 /\ sdk'.shut

\* C3: the start hook only logs, calls no provider operation and returns
\* nil; the stop hook calls the provider's Shutdown exactly once per stop,
\* with the hook's own context, and returns Shutdown's error unchanged; the
\* module never calls Shutdown before the stop hook runs.
C3_Lifecycle == [](C3_State) /\ [][C3_Step]_vars

C3_Witness ==
    /\ last.op = "OnStop"
    /\ pc = "stopped"
    /\ IsOtlp
    /\ last.err = "context deadline exceeded"
    /\ HookShutdowns = <<ShutdownRec("hook", HookCtx, "context deadline exceeded")>>

\* C4: on both providers, for every input context and option list, Start
\* returns (ctx', span) with SpanFromContext(ctx') = span.
C4_StartRoundTrip ==
    \A i \in DOMAIN starts :
        /\ starts[i].span # 0
        /\ SpanFromContext(starts[i].ctx) = starts[i].span

C4_Witness ==
    \E i \in DOMAIN starts :
        /\ spans[starts[i].span].impl = "otlp"
        /\ starts[i].inCtx # Background
        /\ SpanFromContext(starts[i].inCtx) = 0
        /\ SpanFromContext(starts[i].ctx) = starts[i].span

\* C5: in a chain of nested Starts, each derived from the context the
\* previous one returned, every context still resolves to its own span: the
\* child's context gives the child span, which is not the parent's, and the
\* parent's context still gives the parent span.
C5_NestedStarts ==
    \A i, j \in DOMAIN starts :
        starts[j].inCtx = starts[i].ctx =>
            /\ SpanFromContext(starts[j].ctx) = starts[j].span
            /\ starts[j].span # starts[i].span
            /\ SpanFromContext(starts[i].ctx) = starts[i].span
            /\ SpanFromContext(starts[j].inCtx) = starts[i].span

C5_Witness ==
    \E i, j, k \in DOMAIN starts :
        /\ starts[j].inCtx = starts[i].ctx
        /\ starts[k].inCtx = starts[j].ctx
        /\ Cardinality({starts[i].span, starts[j].span, starts[k].span}) = 3
        /\ SpanFromContext(starts[i].ctx) = starts[i].span
        /\ SpanFromContext(starts[j].ctx) = starts[j].span
        /\ SpanFromContext(starts[k].ctx) = starts[k].span

\* the carrier shapes the claim lists as accepted
AcceptedShapes == {"propagation.MapCarrier", "map[string]string", "map[string][]string"}

C7_HttpHeaderAccepted ==
    last.op \in {"Extract", "Inject"} /\ IsOtlp /\ last.carrierIn.type = "http.Header" =>
        last.err = NoErr

\* C8: the no-op provider's Extract returns the very context it was given
\* and a nil error; its Inject returns a nil error and leaves the carrier's
\* contents unchanged; for every carrier, the types the pass-through
\* provider rejects included.
C8_NoopPropagation ==
    IsNoop =>
        /\ last.op = "Extract" =>
             last.ctx = last.inCtx /\ last.err = NoErr /\ last.carrier = last.carrierIn
        /\ last.op = "Inject" =>
             last.err = NoErr /\ last.carrier = last.carrierIn

C8_Witness ==
    /\ IsNoop
    /\ last.op = "Inject"
    /\ last.carrierIn.type = "http.Header"
    /\ last.carrierIn.m # EmptyMap
    /\ SpanFromContext(last.inCtx) # 0
    /\ last.carrier = last.carrierIn
    /\ last.err = NoErr

SpanOps == {"End", "SetTag", "SetError", "LogFields"}

C9_Ids ==
    \A i \in DOMAIN spans :
        spans[i].impl = "noop" =>
            TraceID(spans[i], otel) = "" /\ SpanID(spans[i], otel) = ""

C9_Step ==
    last'.op \in SpanOps /\ IsNoop =>
        UNCHANGED <<pc, how, result, globals, spans, otel, sdk, shutdowns, starts>>

\* C9: a no-op span is inert: through any sequence of End, SetTag, SetError
\* and LogFields its TraceID and SpanID are the empty string in every state,
\* and no call changes any observable state of the span or of its context.
C9_NoopSpanInert == [](C9_Ids) /\ [][C9_Step]_vars

C9_Witness ==
    /\ IsNoop
    /\ last.op = "SetError"
    /\ Len(spans) >= 2
    /\ spans[last.span].ctx # Background
    /\ TraceID(spans[last.span], otel) = ""
    /\ SpanID(spans[last.span], otel) = ""

\* C10: with the no-op provider (built directly, or by NewTracer from a
\* disabled or no-op config) no operation returns an error, in any sequence:
\* Start of parents and children, span mutations, End in either order,
\* Inject, Extract, Shutdown, operations after Shutdown, repeated Shutdown.
C10_NoopNeverFails ==
    IsNoop =>
        /\ last.err = NoErr
        /\ \A n \in DOMAIN shutdowns : shutdowns[n].err = NoErr

C10_Witness ==
    /\ IsNoop
    /\ how = "module"
    /\ CallerShutdowns = MaxCallerShutdowns
    /\ last.op = "Start"
    /\ last.inCtx # Background
    /\ last.err = NoErr

\* a context with a span attached (an entry under spanContextKey{})
Attached(ctx) == \E i \in DOMAIN ctx : ctx[i].k = SpanContextKey

\* C11: SpanFromContext(ContextWithSpan(ctx, s)) = s for any span s and any
\* context ctx, one that already carries another span included, and
\* SpanFromContext on a context with no attached span returns nil.
C11_ContextRoundTrip ==
    /\ pure.op = "ContextWithSpan" =>
         pure.got = pure.span /\ SpanFromContext(pure.ctx) = pure.span
    /\ pure.op = "SpanFromContext" /\ ~Attached(pure.inCtx) => pure.got = 0

C11_Witness ==
    /\ pure.op = "ContextWithSpan"
    /\ pure.span # 0
    /\ SpanFromContext(pure.inCtx) \notin {0, pure.span}
    /\ pure.got = pure.span

\* the span the last call was made on, and its SDK span (0 for a no-op span)
LastSdk == spans[last.span].sdk

OnOtlpSpan(op) == last.op = op /\ last.span # 0 /\ LastSdk # 0

\* C12: a nil error passed to SetError is a no-op on every span of both
\* providers: the call does not fail and records nothing on the span, no
\* error event and no attribute.
C12_NilErrorNoOp ==
    OnOtlpSpan("SetError") /\ last.errArg = NoErr => otel[LastSdk] = last.before

C13_State ==
    OnOtlpSpan("SetError") =>
        /\ Len(last.sdkCalls) = 2
        /\ last.sdkCalls[1].fn = "RecordError"
        /\ last.sdkCalls[1].err = last.errArg
        /\ last.sdkCalls[2].fn = "SetAttributes"
        /\ last.sdkCalls[2].attrs = <<[key |-> "error", type |-> "BOOL", v |-> "true"]>>
        /\ IF Live(last.before)
           THEN /\ "error" \in DOMAIN otel[LastSdk].attrs
                /\ otel[LastSdk].attrs["error"] = [key |-> "error", type |-> "BOOL", v |-> "true"]
                /\ last.errArg # NoErr =>
                     /\ Len(otel[LastSdk].events) = Len(last.before.events) + 1
                     /\ otel[LastSdk].events[Len(otel[LastSdk].events)].name = "exception"
           ELSE otel[LastSdk] = last.before

C13_Step ==
    last'.op = "SetError" /\ sdk'.calls = sdk.calls + 1 =>
        /\ DOMAIN otel' = DOMAIN otel
        /\ \A k \in DOMAIN otel : k # spans[last'.span].sdk => otel'[k] = otel[k]

\* C13: on a pass-through span every SetError(err) makes both recordings, in
\* this order: it forwards err to the SDK's error-recording call, then sets
\* the boolean attribute "error" to true, on the same span.
C13_SetErrorDual == [](C13_State) /\ [][C13_Step]_vars

C13_Witness ==
    /\ OnOtlpSpan("SetError")
    /\ last.errArg = "simulated error"
    /\ Live(last.before)
    /\ last.before.events = <<>>
    /\ Len(otel[LastSdk].events) = 1
    /\ otel[LastSdk].events[1].name = "exception"
    /\ "error" \in DOMAIN otel[LastSdk].attrs

\* C14: on a pass-through span each LogFields call with n fields (n >= 0)
\* adds exactly one event, named "log", that carries exactly n converted
\* attributes in the order of the fields; never one event per field.  (The
\* SDK keeps the event when the span is recording and has not ended.)
C14_LogFieldsOneEvent ==
    OnOtlpSpan("LogFields") =>
        /\ Len(last.sdkCalls) = 1
        /\ last.sdkCalls[1].fn = "AddEvent"
        /\ last.sdkCalls[1].name = "log"
        /\ Len(last.sdkCalls[1].attrs) = Len(last.fields)
        /\ \A n \in DOMAIN last.fields :
             /\ last.sdkCalls[1].attrs[n].key = last.fields[n].Key
             /\ last.sdkCalls[1].attrs[n] =
                    toAttribute(last.fields[n].Key, last.fields[n].Value)
        /\ IF Live(last.before)
           THEN otel[LastSdk].events =
                    Append(last.before.events,
                           [name |-> "log", attrs |-> last.sdkCalls[1].attrs])
           ELSE otel[LastSdk] = last.before

C14_Witness ==
    /\ OnOtlpSpan("LogFields")
    /\ Len(last.fields) = 2
    /\ Live(last.before)
    /\ Len(otel[LastSdk].events) = Len(last.before.events) + 1
    /\ Len(otel[LastSdk].events[Len(otel[LastSdk].events)].attrs) = 2
    /\ otel[LastSdk].events[Len(otel[LastSdk].events)].attrs[1].key = "event"
    /\ otel[LastSdk].events[Len(otel[LastSdk].events)].attrs[2].key = "ttl"

\* the last call was a Shutdown of the pass-through provider, by a caller or
\* by the stop hook
OtlpShutdownDone == last.op \in {"Shutdown", "OnStop"} /\ IsOtlp

\* Shutdown forwarded to the SDK with the caller's context, its result returned
Forwarded ==
    /\ shutdowns # <<>>
    /\ last.sdkCalls = <<SdkShutdownCall(shutdowns[Len(shutdowns)].ctx, last.err)>>
    /\ shutdowns[Len(shutdowns)].err = last.err
    /\ sdk.shut

\* a provider that holds no tracer provider: Shutdown does nothing, returns nil
NoTracerProvider ==
    \A ctx \in {Background, HookCtx}, e \in SdkShutdownErrs :
        otlpShutdown([impl |-> "otlp", tp |-> 0, tracer |-> 0], ctx, e, sdk) =
            [err |-> NoErr, sdk |-> sdk, calls |-> <<>>]

C16_GlobalsInstalled ==
    (last.op \in {"NewTracer", "newotlp"} /\ last.err = NoErr /\ IsOtlp) =>
        /\ result.Provider.tp # 0
        /\ globals.tp = result.Provider.tp
        /\ globals.prop = "tracecontext+baggage"
        /\ result.Provider.tracer = result.Provider.tp

C16_Witness ==
    /\ last.op = "NewTracer"
    /\ last.err = NoErr
    /\ IsOtlp
    /\ globals.tp = result.Provider.tp
    /\ globals.prop = "tracecontext+baggage"
    /\ result.Provider.tracer = globals.tp

\* C17: the process-wide registration of the tracer provider and the
\* propagator is write-once: over any sequence of constructions and
\* provider operations it is written at most one time.
C17_WriteOnce == globals.writes <= 1

\* C18: the provider is chosen once and never changes: the Tracer and the
\* Provider that one NewTracer call returns are the same instance, and no
\* later operation (Start, Extract, Inject, Shutdown, a lifecycle hook, a
\* span method) replaces the active provider or switches it between the
\* no-op and the pass-through implementation.
C18_State == result.Tracer = result.Provider

C18_Step == pc # "boot" => result' = result

C18_ProviderFixed == [](C18_State) /\ [][C18_Step]_vars

C18_Witness ==
    /\ last.op = "OnStop"
    /\ how = "module"
    /\ IsOtlp
    /\ result.Tracer = result.Provider
    /\ starts # <<>>

\* the header map a Config holds on a heap (the empty map for nil)
HeadersOf(c, heap) == IF c.OTLP.Headers = 0 THEN EmptyMap ELSE heap[c.OTLP.Headers]

C20_NewConfigKeepsSecrets ==
    pure.op = "NewConfig" =>
        IF pure.loader.err # NoErr
        THEN pure.err = pure.loader.err
        ELSE /\ pure.err = NoErr
             /\ pure.cfg = pure.loader.cfg
             /\ pure.heap = pure.heap0
             /\ HeadersOf(pure.cfg, pure.heap) = HeadersOf(pure.loader.cfg, pure.heap0)
             /\ DOMAIN HeadersOf(pure.loader.cfg, pure.heap0) # {} =>
                    \E i \in DOMAIN pure.opts :
                        /\ pure.opts[i].opt = "WithHeaders"
                        /\ pure.opts[i].headers = HeadersOf(pure.loader.cfg, pure.heap0)

C20_Witness ==
    /\ pure.op = "NewConfig"
    /\ pure.err = NoErr
    /\ pure.cfg.OTLP.Headers # 0
    /\ "api-key" \in DOMAIN pure.heap0[1]
    /\ pure.heap0[1]["api-key"] = "Bearer secret-token"
    /\ \E i \in DOMAIN pure.opts :
           /\ pure.opts[i].opt = "WithHeaders"
           /\ pure.opts[i].headers["api-key"] = "Bearer secret-token"

\* C21: with tracing enabled and the provider named "jaeger", NewTracer
\* selects a real backend that exports spans to Jaeger, not the no-op
\* provider.
C21_JaegerIsRealBackend ==
    (last.op = "NewTracer" /\ last.config.Enabled /\ last.config.Provider = "jaeger") =>
        /\ last.err = NoErr => ~IsNoop
        /\ \A i \in DOMAIN last.logs : last.logs[i].level # "warn"

\* the positions of the options named name in a list of options
OptsNamed(opts, name) == {i \in DOMAIN opts : opts[i].opt = name}

\* the last position of a non-empty set of positions
LastOf(is) == CHOOSE i \in is : \A j \in is : j <= i

\* C22: applySpanOptions applies the options in call order and the result
\* holds, field by field, what the last option on that field set: Kind is
\* the kind of the last WithSpanKind (internal if there is none), Timestamp
\* the time of the last WithTimestamp (the construction time if there is
\* none), Attributes the right-biased union of the WithAttributes maps: a
\* key has the value of the last map that holds it, and no key is lost.
C22_LastOptionWins ==
    pure.op = "applySpanOptions" =>
        LET opts == pure.opts
            kinds == OptsNamed(opts, "WithSpanKind")
            times == OptsNamed(opts, "WithTimestamp")
            maps == OptsNamed(opts, "WithAttributes")
            Holders(x) == {i \in maps : x \in DOMAIN opts[i].attrs}
        IN  /\ pure.config.Kind =
                   IF kinds = {} THEN SpanKindInternal ELSE opts[LastOf(kinds)].kind
            /\ pure.config.Timestamp =
                   IF times = {} THEN pure.now ELSE opts[LastOf(times)].t
            /\ DOMAIN pure.config.Attributes = UNION {DOMAIN opts[i].attrs : i \in maps}
            /\ \A x \in DOMAIN pure.config.Attributes :
                   pure.config.Attributes[x] = opts[LastOf(Holders(x))].attrs[x]

C22_Witness ==
    /\ pure.op = "applySpanOptions"
    /\ Len(pure.opts) = 3
    /\ pure.opts[1].opt = "WithAttributes"
    /\ pure.opts[3].opt = "WithAttributes"
    /\ DOMAIN pure.opts[1].attrs = {"a", "b"}
    /\ DOMAIN pure.opts[3].attrs = {"a"}
    /\ pure.config.Attributes["a"].v = "one"
    /\ pure.config.Attributes["b"].v = "two"

\* C23: applySpanOptions with zero options returns a config with Kind
\* internal, a non-nil empty attribute map and a non-zero timestamp.
C23_Defaults ==
    (pure.op = "applySpanOptions" /\ pure.opts = <<>>) =>
        /\ pure.config.Kind = SpanKindInternal
        /\ ~pure.config.AttrsNil
        /\ DOMAIN pure.config.Attributes = {}
        /\ pure.config.Timestamp # 0

C23_Witness ==
    /\ pure.op = "applySpanOptions"
    /\ pure.opts = <<>>
    /\ pure.config.Kind = SpanKindInternal
    /\ pure.config.Timestamp = pure.now

\* what the shim's Get, Keys and Set do on a map, the nil map apart: Get
\* gives the first value of the key's list and the empty string when the key
\* is missing or its list is empty; Keys gives every key once; Set(k, v)
\* makes the list of k the one-element list of v, leaves every other key as
\* it was, and Get(k) is v after it; keys match exactly, letter case
\* included
ShimContract ==
    LET m == pure.h.m
        k == pure.key
    IN  /\ pure.got = IF k \in DOMAIN m /\ m[k] # <<>> THEN m[k][1] ELSE NoValue
        /\ \A keys \in pure.keys :
               /\ Len(keys) = Cardinality(DOMAIN m)
               /\ {keys[i] : i \in DOMAIN keys} = DOMAIN m
        /\ pure.keys # {}
        /\ pure.panic = ""
        /\ DOMAIN pure.after.m = DOMAIN m \cup {k}
        /\ pure.after.m[k] = <<pure.value>>
        /\ \A x \in DOMAIN m \ {k} : pure.after.m[x] = m[x]
        /\ pure.gotAfter = pure.value

\* C24 as stated: the shim over map[string][]string behaves so for every
\* map and key.
C24_ShimEveryMap == pure.op = "headerCarrier" => ShimContract

\* C24: the shim over map[string][]string behaves so for every non-nil map
\* and every key; on the nil map Get gives the empty string and Keys no key,
\* and Set panics and writes nothing.
C24_ShimNonNilMap ==
    pure.op = "headerCarrier" =>
        IF pure.h.nil
        THEN /\ pure.got = NoValue
             /\ pure.keys = {<<>>}
             /\ pure.panic # ""
             /\ pure.after = pure.h
        ELSE ShimContract

C24_Witness ==
    /\ pure.op = "headerCarrier"
    /\ ~pure.h.nil
    /\ DOMAIN pure.h.m = {"traceparent", "tracestate"}
    /\ Len(pure.h.m["traceparent"]) = 2
    /\ pure.h.m["traceparent"][1] # pure.h.m["traceparent"][2]
    /\ pure.key = "traceparent"
    /\ pure.value # pure.got
    /\ pure.got = pure.h.m["traceparent"][1]
    /\ pure.gotAfter = pure.value
    /\ Cardinality(pure.keys) = 2

\* C25: the pass-through Start maps the wrapper's span kind to the SDK's
\* kind of the same name (internal, server, client, producer, consumer) and
\* every other SpanKind value to the SDK's internal kind.
C25_KindMapping ==
    pure.op = "otlpStart" =>
        LET kinds == OptsNamed(pure.opts, "WithSpanKind")
            kind == IF kinds = {} THEN SpanKindInternal ELSE pure.opts[LastOf(kinds)].kind
        IN  /\ kind = SpanKindInternal => pure.sdkSpan.kind = "internal"
            /\ kind = SpanKindServer => pure.sdkSpan.kind = "server"
            /\ kind = SpanKindClient => pure.sdkSpan.kind = "client"
            /\ kind = SpanKindProducer => pure.sdkSpan.kind = "producer"
            /\ kind = SpanKindConsumer => pure.sdkSpan.kind = "consumer"
            /\ kind \notin {SpanKindInternal, SpanKindServer, SpanKindClient,
                            SpanKindProducer, SpanKindConsumer} =>
                   pure.sdkSpan.kind = "internal"

C25_Witness ==
    /\ pure.op = "otlpStart"
    /\ pure.opts = <<WithSpanKind(SpanKindConsumer)>>
    /\ pure.sdkSpan.kind = "consumer"

\* the Go types toAttribute names and the SDK attribute type of each
TypedAs ==
    { <<"string", "STRING">>, <<"int", "INT64">>, <<"int64", "INT64">>,
      <<"float64", "FLOAT64">>, <<"bool", "BOOL">>, <<"[]string", "STRINGSLICE">>,
      <<"[]int", "INT64SLICE">>, <<"[]int64", "INT64SLICE">>,
      <<"[]float64", "FLOAT64SLICE">>, <<"[]bool", "BOOLSLICE">> }

\* C26: toAttribute(key, value) gives an attribute with the given key; for a
\* string, int, int64, float64, bool or a slice of one of these, the SDK
\* attribute of the matching type with the same value; for a value of any
\* other type, nil included, a string attribute that is the default
\* formatting of the value.  Start, SetTag and LogFields hand the SDK this
\* same attribute.
C26_AttributeConversion ==
    pure.op = "toAttribute" =>
        /\ pure.attr.key = pure.key
        /\ \A p \in TypedAs :
               pure.value.t = p[1] => pure.attr.type = p[2] /\ pure.attr.v = pure.value.v
        /\ (\A p \in TypedAs : pure.value.t # p[1]) =>
               /\ pure.attr.type = "STRING"
               /\ pure.value.t = "nil" => pure.attr.v = "<nil>"
               /\ pure.value.t = "error" => pure.attr.v = "boom"
               /\ pure.value.t = "uint" => pure.attr.v = "7"
               /\ pure.value.t = "custom" => pure.attr.v = "{test}"
        /\ pure.started = [x \in {pure.key} |-> pure.attr]
        /\ Len(pure.tagged) = 1
        /\ pure.tagged[1].fn = "SetAttributes"
        /\ pure.tagged[1].attrs = <<pure.attr>>
        /\ Len(pure.logged) = 1
        /\ pure.logged[1].fn = "AddEvent"
        /\ pure.logged[1].attrs = <<pure.attr>>

C26_Witness ==
    /\ pure.op = "toAttribute"
    /\ pure.value.t = "custom"
    /\ pure.attr = [key |-> "key", type |-> "STRING", v |-> "{test}"]
    /\ pure.tagged[1].attrs[1] = pure.attr
    /\ pure.logged[1].attrs[1] = pure.attr
    /\ pure.started["key"] = pure.attr

\* C27: the pass-through Start passes a start time to the SDK exactly when
\* the Timestamp of the built config is not the zero time: without a
\* WithTimestamp option the SDK gets the time applySpanOptions took at
\* construction, with a last WithTimestamp(t) for a non-zero t it gets t,
\* and with a last WithTimestamp of the zero time it gets none and chooses
\* the start time itself.
C27_StartTime ==
    pure.op = "otlpStart" =>
        LET times == OptsNamed(pure.opts, "WithTimestamp")
            start == pure.sdkSpan.start
        IN  IF times = {}
            THEN start.given /\ start.t = pure.now
            ELSE IF pure.opts[LastOf(times)].t # 0
            THEN start.given /\ start.t = pure.opts[LastOf(times)].t
            ELSE ~start.given

C27_Witness ==
    /\ pure.op = "otlpStart"
    /\ Len(pure.opts) = 2
    /\ pure.opts[1] = WithTimestamp(5)
    /\ pure.opts[2] = WithTimestamp(0)
    /\ ~pure.sdkSpan.start.given

\* a call of the pass-through provider's Extract or Inject that failed
Rejected(c) == c.op \in {"Extract", "Inject"} /\ c.err # NoErr

C28_State ==
    (IsOtlp /\ Rejected(last)) =>
        /\ last.err = UnsupportedCarrier(last.carrierIn.type)
        /\ last.op = "Extract" => last.ctx = last.inCtx
        /\ last.carrier = last.carrierIn

\* a step that is such a call: it leaves the record of the call in `last`
C28_Step ==
    (IsOtlp /\ Rejected(last') /\ last' # last) =>
        UNCHANGED <<pc, how, result, globals, spans, otel, sdk, shutdowns, starts>>

\* C28: on the unsupported-carrier path nothing changes: the pass-through
\* Extract returns the very context it was given together with the error,
\* Inject returns the error and leaves the carrier as it was, and in both
\* the propagator is not invoked and no state of the provider, of the SDK or
\* of the process changes.
C28_RejectionChangesNothing == [](C28_State) /\ [][C28_Step]_vars

C28_Witness ==
    /\ IsOtlp
    /\ last.op = "Extract"
    /\ last.err # NoErr
    /\ last.carrierIn.type = "http.Header"
    /\ last.carrierIn.m # EmptyMap
    /\ last.inCtx # Background
    /\ last.ctx = last.inCtx
    /\ sdk.calls > 0

\* the calls that construct a provider
Constructions == {"NewTracer", "newotlp", "newnoop"}

C29_State ==
    (pc = "failed" \/ IsNoop) =>
        globals.writes = 0 /\ globals.tp = 0 /\ globals.prop = "noop"

C29_Step ==
    /\ globals' # globals =>
           /\ last'.op \in Constructions
           /\ last'.err = NoErr
           /\ result'.Provider.impl = "otlp"
           /\ globals'.writes = globals.writes + 1
    /\ (last' # last /\ last'.op \in Constructions /\ last'.err # NoErr) =>
           /\ last'.err \in {ExporterErr, ResourceErr}
           /\ globals' = globals

\* C29: the process-wide tracer provider and propagator are written only
\* after the exporter and the resource were both created: a construction of
\* the pass-through provider that fails leaves the registration as it was,
\* and a construction that selects the no-op provider (tracing disabled,
\* "noop", an unknown name) never writes it.
C29_GlobalsOnlyOnSuccess == [](C29_State) /\ [][C29_Step]_vars

C29_Witness ==
    /\ pc = "failed"
    /\ last.op = "NewTracer"
    /\ last.err = ResourceErr
    /\ globals.writes = 0
    /\ globals.tp = 0

\* C30: on both providers Span.Context() returns the context the span came
\* from, which does not carry the span itself: SpanFromContext of it is the
\* span of the enclosing parent when Start was called on a context that
\* carried one and nil otherwise, never the span Context() was called on;
\* only the context Start returned carries that span.
C30_ContextIsOrigin ==
    \A i \in DOMAIN starts :
        LET id == starts[i].span
            origin == SpanContext(spans[id])
        IN  /\ SpanFromContext(origin) = SpanFromContext(starts[i].inCtx)
            /\ SpanFromContext(origin) # id
            /\ spans[id].impl = "noop" => origin = starts[i].inCtx
            /\ SpanFromContext(starts[i].ctx) = id
            /\ starts[i].ctx # origin

C30_Witness ==
    \E i, j \in DOMAIN starts :
        /\ starts[j].inCtx = starts[i].ctx
        /\ spans[starts[j].span].impl = "otlp"
        /\ spans[starts[j].span].sdk # 0
        /\ otel[spans[starts[j].span].sdk].ended
        /\ SpanFromContext(SpanContext(spans[starts[j].span])) = starts[i].span
        /\ SpanFromContext(SpanContext(spans[starts[i].span])) = 0

====
